---- MODULE Spec2Model ----
(***************************************************************************)
(* A model of canvas-invaders: the geometry / movement engine              *)
(* (src/src/geom.rs, src/src/entities.rs) and the key listener and         *)
(* animation driver of start() (src/src/lib.rs).                           *)
(*                                                                         *)
(* Numbers.  The program computes in f64.  The model computes in exact     *)
(* integers: distances are whole pixels, timestamps are whole              *)
(* milliseconds, and a rate is a fraction num/den whose product with a     *)
(* time delta is taken only for deltas that make it a whole number (the    *)
(* deltas are multiples of TickMs).  Rounding, NaN and infinities of f64   *)
(* are outside the model.                                                  *)
(*                                                                         *)
(* Specifications.                                                         *)
(*   SpecOffset / FairSpecOffset : one OffsetStrategy value driven by      *)
(*       offset() calls; the Cycle arm's loop is taken one iteration at a  *)
(*       time.                                                             *)
(*   SpecFleet : a Fleet built by Fleet::new and driven by animate().      *)
(*   SpecFleetSetters : the same Fleet with direct set_x and set_y calls.  *)
(*   SpecFleetLoop / FairSpecFleetLoop : Fleet::animate with the Cycle     *)
(*       arm's loop taken one iteration at a time, for playfields wider    *)
(*       and narrower than the formation.                                  *)
(*   SpecShip  : a Ship built by Ship::new and driven by direction         *)
(*       changes, animate() and shoot().                                   *)
(*   SpecBullets : a Ship in the narrowest playfield that shoots several   *)
(*       bullets.                                                          *)
(*   SpecMagazine / FairSpecMagazine : the same Ship with its bullets      *)
(*       followed from shoot() to their removal, and with a driver that    *)
(*       keeps animating.                                                  *)
(*   SpecEntity : calls of Entity::new with a pixel buffer.                *)
(*   SpecGame : start()'s key listener and animation driver around the     *)
(*       key channel (src/src/lib.rs).                                     *)
(*   SpecLastKey / FairSpecLastKey : the same with the listener's last     *)
(*       movement-key event observed, and with a fair driver.              *)
(***************************************************************************)
EXTENDS Integers, Sequences, FiniteSets, TLC

VARIABLES
    strategy,   \* the OffsetStrategy under test (geom.rs:139-150)
    current,    \* the value the strategy is applied to; the last value returned
    pc,         \* "idle", or "loop" inside the Cycle arm's loop (geom.rs:185-197)
    result,     \* the Cycle arm's local `result` (geom.rs:184)
    call,       \* the arguments of the call in progress or last returned
    hist,       \* observer of the offset() call sequence (see OffsetInit)
    fleet,      \* the Fleet (entities.rs:136-142)
    fleetArgs,  \* the arguments Fleet::new was called with
    fleetCall,  \* observer of the last Fleet operation
    ship,       \* the Ship (entities.rs:69-74)
    shipArgs,   \* the arguments Ship::new was called with
    shipCall,   \* observer of the last Ship operation
    entity,     \* what the last Entity::new call was given and returned
    queue,      \* the events buffered in the key channel (lib.rs:18)
    pending,    \* animation-frame callbacks requested and not yet run
    note,       \* observer of the last listener or driver run
    lastEdge,   \* observer of the last movement-key edge the listener got
    frames      \* observer: the parity of the number of frames run

offsetVars == <<strategy, current, pc, result, call, hist>>
fleetVars  == <<fleet, fleetArgs, fleetCall>>
shipVars   == <<ship, shipArgs, shipCall>>
entityVars == <<entity>>
gameVars   == <<queue, pending, note, lastEdge, frames>>
vars       == <<offsetVars, fleetVars, shipVars, entityVars, gameVars>>

(***************************************************************************)
(* Bounds of the model.                                                    *)
(***************************************************************************)
\* strategy bounds min, max are drawn from 0..MaxBound
MaxBound == 3
\* offset() deltas of the strategy harness are drawn from -MaxDelta..MaxDelta
MaxDelta == 5

Abs(x) == IF x < 0 THEN -x ELSE x

\* f64::min and f64::max (geom.rs:178)
F64Min(a, b) == IF a < b THEN a ELSE b
F64Max(a, b) == IF a > b THEN a ELSE b

\* f64::copysign (geom.rs:184): the magnitude of x with the sign of s
Copysign(x, s) == IF s < 0 THEN -Abs(x) ELSE Abs(x)

(***************************************************************************)
(* OffsetStrategy (geom.rs:137-201).  A strategy is a record               *)
(* [kind, min, max, direction]; the fields a variant does not have are 0.  *)
(***************************************************************************)
linear == [kind |-> "Linear", min |-> 0, max |-> 0, direction |-> 0]

limit(min, max) == [kind |-> "Limit", min |-> min, max |-> max, direction |-> 0]

cycle(min, max) == [kind |-> "Cycle", min |-> min, max |-> max, direction |-> 1]

\* the Linear arm (geom.rs:177)
LinearArm(cur, offset) == cur + offset

\* a Limit arm that clamps to max last: wrong whenever the sum is below min
LimitArmNoMin(s, cur, offset) == F64Min(cur + offset, s.max)

\* the Limit arm (geom.rs:178): (current + offset).min(max).max(min)
LimitArm(s, cur, offset) == F64Max(F64Min(cur + offset, s.max), s.min)

\* a first statement that subtracts the signed offset
CycleEnterSub(s, cur, offset) == cur - Copysign(offset, s.direction)

\* the first statement of the Cycle arm (geom.rs:184)
CycleEnter(s, cur, offset) == cur + Copysign(offset, s.direction)

\* a loop body that never tests the upper bound
CycleIterNoMax(s, res) ==
    IF res < s.min
    THEN [result |-> s.min + (s.min - res), direction |-> 1, done |-> FALSE]
    ELSE [result |-> res, direction |-> s.direction, done |-> TRUE]

\* a loop body whose upper branch flips the direction and forgets the value
CycleIterStuck(s, res) ==
    IF res > s.max
    THEN [result |-> res, direction |-> -1, done |-> FALSE]
    ELSE IF res < s.min
    THEN [result |-> s.min + (s.min - res), direction |-> 1, done |-> FALSE]
    ELSE [result |-> res, direction |-> s.direction, done |-> TRUE]

\* one iteration of the Cycle arm's loop (geom.rs:185-197): the new `result`,
\* the new `direction`, and whether the iteration was the `break`
CycleIter(s, res) ==
    IF res > s.max
    THEN LET offset == res - s.max
         IN  [result |-> res - offset, direction |-> -1, done |-> FALSE]
    ELSE IF res < s.min
    THEN LET offset == s.min - res
         IN  [result |-> s.min + offset, direction |-> 1, done |-> FALSE]
    ELSE [result |-> res, direction |-> s.direction, done |-> TRUE]

\* the Cycle arm's loop run to its break (geom.rs:185-197)
RECURSIVE CycleLoop(_, _)
CycleLoop(s, res) ==
    LET it == CycleIter(s, res)
    IN  IF it.done
        THEN [value |-> it.result, strategy |-> s]
        ELSE CycleLoop([s EXCEPT !.direction = it.direction], it.result)

\* OffsetStrategy::offset (geom.rs:175-200): the value returned and the
\* strategy as the call leaves it
OffsetStrategy_offset(s, cur, offset) ==
    CASE s.kind = "Linear" -> [value |-> LinearArm(cur, offset), strategy |-> s]
      [] s.kind = "Limit"  -> [value |-> LimitArm(s, cur, offset), strategy |-> s]
      [] s.kind = "Cycle"  -> CycleLoop(s, CycleEnter(s, cur, offset))

(***************************************************************************)
(* The strategy harness: one OffsetStrategy value and the value it is      *)
(* applied to.  Every call feeds the value the previous call returned.     *)
(***************************************************************************)
Bounds == 0..MaxBound

Deltas == (-MaxDelta)..MaxDelta

\* the values a harness run may start from and that Linear may reach
Window == (-1)..(MaxBound + 1)

InRange(s, v) == s.min <= v /\ v <= s.max

\* the strategies the constructors linear(), limit() and cycle() build
\* (geom.rs:159-173) with min <= max
Strategies ==
    {linear}
        \cup {limit(a, b) : a \in Bounds, b \in Bounds}
        \cup {cycle(a, b) : a \in Bounds, b \in Bounds}

FleetIdle == fleet = <<>> /\ fleetArgs = <<>> /\ fleetCall = <<>>

ShipIdle == ship = <<>> /\ shipArgs = <<>> /\ shipCall = <<>>

EntityIdle == entity = <<>>

GameIdle ==
    /\ queue = <<>> /\ pending = 0 /\ note = <<>> /\ lastEdge = <<>>
    /\ frames = 0

\* hist observes the call sequence: the strategy and value the run started
\* with, the value the same deltas give through Linear (kept while no step
\* has taken it outside [min,max]: inRange), whether every delta so far was
\* >= 0, and whether the Cycle direction flag has ever changed
OffsetInit ==
    /\ strategy \in {s \in Strategies : s.min <= s.max}
    /\ current \in Window
    /\ pc = "idle"
    /\ result = 0
    /\ call = [current |-> current, offset |-> 0, direction |-> strategy.direction,
               reflections |-> 0, returned |-> FALSE]
    /\ hist = [strategy0 |-> strategy, start |-> current, linear |-> current,
               inRange |-> InRange(strategy, current), nonNeg |-> TRUE,
               dirChanged |-> FALSE]

InitOffset == OffsetInit /\ FleetIdle /\ ShipIdle /\ EntityIdle /\ GameIdle

\* a call offset(current, d) (geom.rs:175): the Linear and Limit arms return
\* at once, the Cycle arm computes `result` and enters its loop
OffsetCall(d) ==
    /\ pc = "idle"
    /\ LET sum == LinearArm(hist.linear, d)
           ok  == hist.inRange /\ InRange(strategy, sum)
       IN  hist' = [hist EXCEPT !.linear = IF ok THEN sum ELSE @,
                                !.inRange = ok,
                                !.nonNeg = @ /\ d >= 0]
    /\ IF strategy.kind = "Cycle"
       THEN /\ pc' = "loop"
            /\ result' = CycleEnter(strategy, current, d)
            /\ call' = [current |-> current, offset |-> d,
                        direction |-> strategy.direction,
                        reflections |-> 0, returned |-> FALSE]
            /\ UNCHANGED <<strategy, current>>
       ELSE LET r == OffsetStrategy_offset(strategy, current, d)
            IN  /\ r.value \in Window
                /\ current' = r.value
                /\ strategy' = r.strategy
                /\ call' = [current |-> current, offset |-> d,
                            direction |-> strategy.direction,
                            reflections |-> 0, returned |-> TRUE]
                /\ UNCHANGED <<pc, result>>
    /\ UNCHANGED <<fleetVars, shipVars, entityVars, gameVars>>

\* one iteration of the Cycle arm's loop (geom.rs:185-197); the break
\* returns `result` (geom.rs:195)
OffsetLoop ==
    /\ pc = "loop"
    /\ LET it == CycleIter(strategy, result)
       IN  IF it.done
           THEN /\ current' = it.result
                /\ pc' = "idle"
                /\ call' = [call EXCEPT !.returned = TRUE]
                /\ UNCHANGED <<strategy, result, hist>>
           ELSE /\ result' = it.result
                /\ strategy' = [strategy EXCEPT !.direction = it.direction]
                /\ call' = [call EXCEPT !.reflections = F64Min(@ + 1, 2)]
                /\ hist' = [hist EXCEPT !.dirChanged =
                                @ \/ it.direction # strategy.direction]
                /\ UNCHANGED <<current, pc>>
    /\ UNCHANGED <<fleetVars, shipVars, entityVars, gameVars>>

NextOffset == (\E d \in Deltas : OffsetCall(d)) \/ OffsetLoop

SpecOffset == InitOffset /\ [][NextOffset]_vars

\* the loop is sequential code: an iteration that can run does run
FairSpecOffset == SpecOffset /\ WF_vars(OffsetLoop)

(***************************************************************************)
(* Claims about OffsetStrategy::offset.                                    *)
(***************************************************************************)
\* a Cycle call that has returned
CycleReturned == strategy.kind = "Cycle" /\ pc = "idle" /\ call.returned

\* clamp as the specification words it, for strategies with min <= max
Clamp(v, lo, hi) == IF v < lo THEN lo ELSE IF v > hi THEN hi ELSE v

\* C1 (Cycle boundedness): whenever a Cycle strategy with min <= max, either
\* direction flag, is applied to a current value in [min,max] with any delta,
\* the value returned lies in [min,max].
C1_CycleBounded ==
    (CycleReturned /\ InRange(strategy, call.current))
        => InRange(strategy, current)

\* C1's case: a call from inside the range with the flag at -1 and a delta
\* larger than the span has returned after reflecting
C1_Witness ==
    /\ CycleReturned
    /\ InRange(strategy, call.current)
    /\ call.direction = -1
    /\ Abs(call.offset) > strategy.max - strategy.min
    /\ call.reflections >= 1

\* C2 (Cycle termination): every Cycle call, whatever the current value and
\* the delta, leaves the reflection loop and returns.
C2_CycleTerminates == (pc = "loop") ~> (pc = "idle" /\ call.returned)

\* C2's case: a call whose delta exceeds the span has returned after two
\* reflections (one at each bound)
C2_Witness ==
    /\ CycleReturned
    /\ Abs(call.offset) > strategy.max - strategy.min
    /\ call.reflections = 2

\* C3 (true reflection at both bounds): a step from inside [min,max] that
\* overshoots max by o, 0 < o <= max - min, returns max - o, and one that
\* overshoots min by o returns min + o.
C3_CycleReflects ==
    (CycleReturned /\ InRange(strategy, call.current)) =>
        LET target == call.current + Copysign(call.offset, call.direction)
            span   == strategy.max - strategy.min
            over   == target - strategy.max
            under  == strategy.min - target
        IN  /\ (0 < over /\ over <= span) => current = strategy.max - over
            /\ (0 < under /\ under <= span) => current = strategy.min + under

C5_LimitIsClamp ==
    (strategy.kind = "Limit" /\ call.returned) =>
        /\ current = Clamp(call.current + call.offset, strategy.min, strategy.max)
        /\ strategy = hist.strategy0
        /\ OffsetStrategy_offset(strategy, current, 0).value = current
        /\ OffsetStrategy_offset(strategy, current, 0).strategy = strategy

\* C5's case: offset(x, 0) has returned for an x below min
C5_Witness ==
    /\ strategy.kind = "Limit" /\ call.returned
    /\ call.offset = 0
    /\ call.current < strategy.min
    /\ current = strategy.min

(***************************************************************************)
(* Coordinates, Position, Size and the XY capability (geom.rs:1-135).      *)
(* Coordinates are records [x, y, x_strategy, y_strategy]; an Entity is    *)
(* [size, position] (its pixel data plays no part in movement); a Fleet is *)
(* the record Fleet_new builds.                                            *)
(***************************************************************************)
\* Position::new and Size::new (geom.rs:73-81, 96-104): default strategies
Position_new(x, y) == [x |-> x, y |-> y, x_strategy |-> linear, y_strategy |-> linear]

Size_new(x, y) == Position_new(x, y)

\* Entity::new (entities.rs:16-24): the given size at the default Position
Entity_new(width, height) ==
    [size |-> Size_new(width, height), position |-> Position_new(0, 0)]

\* which impl of XY a value has: Fleet (entities.rs:196) or the plain
\* Coordinates / Position one (geom.rs:11-19, 83-91)
IsFleet(self) == "members" \in DOMAIN self

\* XY::get_coordinates (geom.rs:12-14, 84-86; entities.rs:197-199)
get_coordinates(self) == IF IsFleet(self) THEN self.position ELSE self

\* XY::set_offset_x, XY::set_offset_y (geom.rs:45-51) on a Position
set_offset_x(pos, s) == [pos EXCEPT !.x_strategy = s]

set_offset_y(pos, s) == [pos EXCEPT !.y_strategy = s]

\* a set_x that moves the fleet's own x and leaves the members where they are
Fleet_set_xOwnOnly(f, x) == [f EXCEPT !.position.x = x]

\* Fleet's set_x (entities.rs:205-214): every member is placed from its
\* column index, then the fleet's own x is set
Fleet_set_x(f, x) ==
    [f EXCEPT
        !.members = [r \in DOMAIN f.members |->
                        [c \in DOMAIN f.members[r] |->
                            LET member == f.members[r][c]
                                member_width == member.size.x
                            IN  [member EXCEPT !.position.x =
                                    ((c - 1) * (member_width + f.spacing)) + x]]],
        !.position.x = x]

\* Fleet's set_y (entities.rs:216-225)
Fleet_set_y(f, y) ==
    [f EXCEPT
        !.members = [r \in DOMAIN f.members |->
                        [c \in DOMAIN f.members[r] |->
                            LET member == f.members[r][c]
                                member_height == member.size.y
                            IN  [member EXCEPT !.position.y =
                                    ((r - 1) * (member_height + f.spacing)) + y]]],
        !.position.y = y]

\* XY::set_x, XY::set_y (geom.rs:32-38), overridden by Fleet
set_x(self, x) == IF IsFleet(self) THEN Fleet_set_x(self, x) ELSE [self EXCEPT !.x = x]

set_y(self, y) == IF IsFleet(self) THEN Fleet_set_y(self, y) ELSE [self EXCEPT !.y = y]

\* the strategies as the two offset calls of XY::offset leave them
\* (geom.rs:61-63 write through get_coordinates_mut)
WithStrategies(self, sx, sy) ==
    IF IsFleet(self)
    THEN [self EXCEPT !.position.x_strategy = sx, !.position.y_strategy = sy]
    ELSE [self EXCEPT !.x_strategy = sx, !.y_strategy = sy]

\* XY::offset (geom.rs:58-67)
XY_offset(self, offset_x, offset_y) ==
    LET this  == get_coordinates(self)
        new_x == OffsetStrategy_offset(this.x_strategy, this.x, offset_x)
        new_y == OffsetStrategy_offset(this.y_strategy, this.y, offset_y)
    IN  set_y(set_x(WithStrategies(self, new_x.strategy, new_y.strategy),
                    new_x.value),
              new_y.value)

(***************************************************************************)
(* Fleet (entities.rs:136-250).                                            *)
(***************************************************************************)
\* icons::ENEMY_WIDTH, icons::ENEMY_HEIGHT
ENEMY_WIDTH == 16
ENEMY_HEIGHT == 16
\* the y Fleet::new places the fleet at (entities.rs:178)
FLEET_Y == 60
\* Fleet's rate 0.03 (entities.rs:183) as FLEET_RATE_NUM / FLEET_RATE_DEN
FLEET_RATE_NUM == 3
FLEET_RATE_DEN == 100
\* MARGIN_X (lib.rs:11), the left bound start() gives Fleet and Ship
MARGIN_X == 30

\* offset_ts * rate (entities.rs:105, 190), for a rate [num, den]
TimesRate(offset_ts, rate) == (offset_ts * rate.num) \div rate.den

\* Fleet::new (entities.rs:145-187)
Fleet_new(rows, columns, spacing, left_bound, right_bound) ==
    LET members ==
            [r \in 1..rows |->
                [c \in 1..columns |->
                    LET member == Entity_new(ENEMY_WIDTH, ENEMY_HEIGHT)
                    IN  [member EXCEPT
                            !.position.x = (c - 1) * (member.size.x + spacing),
                            !.position.y = (r - 1) * (member.size.y + spacing)]]]
        size == Size_new((columns * (ENEMY_WIDTH + spacing)) - spacing,
                         (rows * (ENEMY_HEIGHT + spacing)) - spacing)
        position == set_offset_x(Position_new(left_bound, FLEET_Y),
                                 cycle(left_bound, right_bound - size.x))
    IN  [size |-> size,
         position |-> position,
         rate |-> [num |-> FLEET_RATE_NUM, den |-> FLEET_RATE_DEN],
         spacing |-> spacing,
         members |-> members]

\* Fleet::animate (entities.rs:189-193); drawing changes no state
Fleet_animate(f, offset_ts) ==
    LET raw_offset == TimesRate(offset_ts, f.rate)
    IN  XY_offset(f, raw_offset, 0)

\* Bounds of the fleet runs
MaxRows == 2
MaxColumns == 2
MaxSpacing == 1
\* right_bound is left_bound + fleet width + 0..MaxSpan
MaxSpan == 7
\* time deltas are -1..MaxTicks ticks
MaxTicks == 3

\* a tick: the time delta that makes every rate's product a whole number
TickMs == FLEET_RATE_DEN

TimeDeltas == {k * TickMs : k \in (-1)..MaxTicks}

OffsetIdle ==
    /\ strategy = <<>> /\ current = 0 /\ pc = "idle" /\ result = 0
    /\ call = <<>> /\ hist = <<>>

\* fleetCall observes the calls: the last operation, the delta of the last
\* animate call, and whether every animate call so far had the same delta
InitFleet ==
    /\ \E rows \in 1..MaxRows, columns \in 1..MaxColumns, spacing \in 0..MaxSpacing,
          left_bound \in {0, MARGIN_X}, span \in 0..MaxSpan :
            LET width == (columns * (ENEMY_WIDTH + spacing)) - spacing
                right_bound == left_bound + width + span
            IN  /\ fleetArgs = [rows |-> rows, columns |-> columns,
                                spacing |-> spacing, left_bound |-> left_bound,
                                right_bound |-> right_bound]
                /\ fleet = Fleet_new(rows, columns, spacing, left_bound, right_bound)
    /\ fleetCall = [op |-> "new", delta |-> 0, const |-> TRUE]
    /\ OffsetIdle /\ ShipIdle /\ EntityIdle /\ GameIdle

\* a call fleet.animate(context, delta) (lib.rs:86)
FleetAnimate(delta) ==
    /\ fleet' = Fleet_animate(fleet, delta)
    /\ fleetCall' = [op |-> "animate", delta |-> delta,
                     const |-> \/ fleetCall.op = "new"
                               \/ (fleetCall.const /\ fleetCall.delta = delta)]
    /\ UNCHANGED <<fleetArgs, offsetVars, shipVars, entityVars, gameVars>>

NextFleet == \E delta \in TimeDeltas : FleetAnimate(delta)

SpecFleet == InitFleet /\ [][NextFleet]_vars

(***************************************************************************)
(* Claims about Fleet.                                                     *)
(***************************************************************************)
\* C6 (fleet rigidity): in every state from the one Fleet::new returns, the
\* member at row r, column c is at x = fleet.position.x + c*(width + spacing)
\* and y = fleet.position.y + r*(height + spacing).
C6_FleetRigid ==
    \A r \in DOMAIN fleet.members : \A c \in DOMAIN fleet.members[r] :
        LET member == fleet.members[r][c]
        IN  /\ member.position.x =
                 fleet.position.x + (c - 1) * (ENEMY_WIDTH + fleet.spacing)
            /\ member.position.y =
                 fleet.position.y + (r - 1) * (ENEMY_HEIGHT + fleet.spacing)

\* C7 (wall bounce): under animate calls with one constant delta > 0 whose
\* step is smaller than the travel span, x strictly increases on every call
\* while the fleet moves right and is short of the right wall; from the state
\* in which x + W = right_bound every call strictly decreases x, with the
\* direction flag at -1, until the left bound is reached.
C7_Step ==
    LET x    == fleet.position.x
        dir  == fleet.position.x_strategy.direction
        W    == fleet.size.x
        step == TimesRate(fleetCall'.delta, fleet.rate)
        span == (fleetArgs.right_bound - W) - fleetArgs.left_bound
    IN  (/\ fleetCall'.op = "animate" /\ fleetCall'.const
         /\ fleetCall'.delta > 0 /\ step < span)
        => /\ (dir = 1 /\ x + W < fleetArgs.right_bound)
                => fleet'.position.x > x
           /\ (x + W = fleetArgs.right_bound)
                => /\ fleet'.position.x < x
                   /\ fleet'.position.x_strategy.direction = -1
           /\ (dir = -1 /\ x - step >= fleetArgs.left_bound)
                => /\ fleet'.position.x < x
                   /\ fleet'.position.x_strategy.direction = -1

\* C7: every step of a fleet run is a wall-bounce step as C7_Step states it.
C7_FleetWallBounce == [][C7_Step]_vars

(***************************************************************************)
(* Fleet with direct calls of its setters (entities.rs:205-225).           *)
(***************************************************************************)
\* the values handed to set_x and set_y
FleetXs == {0, MARGIN_X, 2 * MARGIN_X}

FleetYs == {0, MARGIN_X, FLEET_Y}

\* a call fleet.set_x(x)
FleetSetX(x) ==
    /\ fleet' = set_x(fleet, x)
    /\ fleetCall' = [fleetCall EXCEPT !.op = "set_x"]
    /\ UNCHANGED <<fleetArgs, offsetVars, shipVars, entityVars, gameVars>>

\* a call fleet.set_y(y)
FleetSetY(y) ==
    /\ fleet' = set_y(fleet, y)
    /\ fleetCall' = [fleetCall EXCEPT !.op = "set_y"]
    /\ UNCHANGED <<fleetArgs, offsetVars, shipVars, entityVars, gameVars>>

NextFleetSetters ==
    \/ \E delta \in TimeDeltas : FleetAnimate(delta)
    \/ \E x \in FleetXs : FleetSetX(x)
    \/ \E y \in FleetYs : FleetSetY(y)

SpecFleetSetters == InitFleet /\ [][NextFleetSetters]_vars

MemberOnGridX(r, c) ==
    fleet.members[r][c].position.x =
        fleet.position.x + (c - 1) * (ENEMY_WIDTH + fleet.spacing)

MemberOnGridY(r, c) ==
    fleet.members[r][c].position.y =
        fleet.position.y + (r - 1) * (ENEMY_HEIGHT + fleet.spacing)

\* C17 (the setters restore the grid): in the state an animate call or a
\* direct set_x call returns, every member (r, c) has
\* x = fleet.position.x + c*(width + spacing); in the state an animate call
\* or a direct set_y call returns, every member has
\* y = fleet.position.y + r*(height + spacing); wherever the members were
\* before the call.
C17_SettersRestoreGrid ==
    \A r \in DOMAIN fleet.members : \A c \in DOMAIN fleet.members[r] :
        /\ fleetCall.op \in {"animate", "set_x"} => MemberOnGridX(r, c)
        /\ fleetCall.op \in {"animate", "set_y"} => MemberOnGridY(r, c)

\* C17's case: set_x has moved a fleet of two columns, whose members were
\* off the grid in both axes after Fleet::new, away from its left bound; the
\* rows are still off the grid in y
C17_Witness ==
    /\ fleetCall.op = "set_x"
    /\ Len(fleet.members[1]) = 2
    /\ fleet.position.x # fleetArgs.left_bound
    /\ fleetArgs.left_bound # 0
    /\ \A r \in DOMAIN fleet.members : \A c \in DOMAIN fleet.members[r] :
            MemberOnGridX(r, c) /\ ~MemberOnGridY(r, c)

(***************************************************************************)
(* Fleet::animate with the Cycle arm's loop taken one iteration at a time  *)
(* (entities.rs:189-193; geom.rs:58-67, 184-197), for the fleets           *)
(* Fleet::new builds in a playfield wider than, as wide as and narrower    *)
(* than the formation.  strategy, current, result, pc and call hold the    *)
(* x strategy's offset() call in progress, as in the strategy harness.     *)
(***************************************************************************)
\* right_bound is down to MaxNarrow short of left_bound + fleet width
MaxNarrow == 2

InitFleetLoop ==
    /\ \E rows \in 1..MaxRows, columns \in 1..MaxColumns, spacing \in 0..MaxSpacing,
          span \in (-MaxNarrow)..MaxSpan :
            LET width == (columns * (ENEMY_WIDTH + spacing)) - spacing
                left_bound == MARGIN_X
                right_bound == left_bound + width + span
            IN  /\ fleetArgs = [rows |-> rows, columns |-> columns,
                                spacing |-> spacing, left_bound |-> left_bound,
                                right_bound |-> right_bound]
                /\ fleet = Fleet_new(rows, columns, spacing, left_bound, right_bound)
    /\ fleetCall = [op |-> "new", delta |-> 0]
    /\ strategy = fleet.position.x_strategy
    /\ current = fleet.position.x
    /\ pc = "idle"
    /\ result = 0
    /\ call = [current |-> current, offset |-> 0, direction |-> strategy.direction,
               reflections |-> 0, returned |-> FALSE]
    /\ hist = <<>>
    /\ ShipIdle /\ EntityIdle /\ GameIdle

\* a call fleet.animate(context, delta) up to the first statement of the
\* Cycle arm (entities.rs:190-191; geom.rs:59-62, 184)
FleetAnimateEnter(delta) ==
    /\ pc = "idle"
    /\ LET raw_offset == TimesRate(delta, fleet.rate)
           this == get_coordinates(fleet)
       IN  /\ strategy' = this.x_strategy
           /\ current' = this.x
           /\ result' = CycleEnter(this.x_strategy, this.x, raw_offset)
           /\ call' = [current |-> this.x, offset |-> raw_offset,
                       direction |-> this.x_strategy.direction,
                       reflections |-> 0, returned |-> FALSE]
    /\ pc' = "loop"
    /\ fleetCall' = [op |-> "animate", delta |-> delta]
    /\ UNCHANGED <<fleet, fleetArgs, hist, shipVars, entityVars, gameVars>>

\* one iteration of the Cycle arm's loop (geom.rs:185-197); after the break
\* the call goes on to its end: the y strategy, set_x, set_y (geom.rs:63-66)
\* and draw
FleetAnimateLoop ==
    /\ pc = "loop"
    /\ LET it == CycleIter(strategy, result)
       IN  IF it.done
           THEN LET this  == get_coordinates(fleet)
                    new_y == OffsetStrategy_offset(this.y_strategy, this.y, 0)
                IN  /\ fleet' = set_y(set_x(WithStrategies(fleet, strategy,
                                                           new_y.strategy),
                                            it.result),
                                      new_y.value)
                    /\ current' = it.result
                    /\ pc' = "idle"
                    /\ call' = [call EXCEPT !.returned = TRUE]
                    /\ UNCHANGED <<strategy, result>>
           ELSE /\ result' = it.result
                /\ strategy' = [strategy EXCEPT !.direction = it.direction]
                /\ call' = [call EXCEPT !.reflections = F64Min(@ + 1, 2)]
                /\ UNCHANGED <<fleet, current, pc>>
    /\ UNCHANGED <<fleetArgs, fleetCall, hist, shipVars, entityVars, gameVars>>

NextFleetLoop == (\E delta \in TimeDeltas : FleetAnimateEnter(delta)) \/ FleetAnimateLoop

SpecFleetLoop == InitFleetLoop /\ [][NextFleetLoop]_vars

\* the loop is sequential code: an iteration that can run does run
FairSpecFleetLoop == SpecFleetLoop /\ WF_vars(FleetAnimateLoop)

\* C21 (Fleet::animate terminates): for every fleet Fleet::new can build, a
\* formation wider than the playfield included (the Cycle's max below its
\* min), every animate call that has entered the Cycle arm's loop returns.
C21_AnimateReturns == (pc = "loop") ~> (pc = "idle" /\ call.returned)

(***************************************************************************)
(* Ship and Bullet (entities.rs:61-134, 252-274).                          *)
(***************************************************************************)
\* icons::SHIP_WIDTH, icons::SHIP_HEIGHT, icons::BULLET_WIDTH, icons::BULLET_HEIGHT
SHIP_WIDTH == 48
SHIP_HEIGHT == 48
BULLET_WIDTH == 16
BULLET_HEIGHT == 16
\* Bullet::RATE 0.5 (entities.rs:257) as BULLET_RATE_NUM / BULLET_RATE_DEN
BULLET_RATE_NUM == 1
BULLET_RATE_DEN == 2
\* the offsets of a new bullet from the ship (entities.rs:128-129)
SHOOT_DX == 11
SHOOT_DY == 10

\* Ship::new (entities.rs:77-102)
Ship_new(rate, y_position, left_bound, right_bound) ==
    LET inner == Entity_new(SHIP_WIDTH, SHIP_HEIGHT)
        p1 == set_offset_x(inner.position,
                           limit(left_bound, right_bound - SHIP_WIDTH))
        center == left_bound + ((right_bound - left_bound) \div 2)
                             + (SHIP_WIDTH \div 2)
        p2 == set_x(p1, center)
        p3 == set_offset_y(p2, limit(y_position, y_position))
        p4 == set_y(p3, y_position - SHIP_HEIGHT)
    IN  [inner |-> [inner EXCEPT !.position = p4],
         direction |-> "Stopped",
         rate |-> rate,
         bullets |-> <<>>]

\* Bullet::new (entities.rs:259-266)
Bullet_new(position) ==
    [inner |-> [Entity_new(BULLET_WIDTH, BULLET_HEIGHT) EXCEPT !.position = position]]

\* a Bullet::animate that leaves the bullet where it is
Bullet_animateStill(b, offset_ts) == b

\* Bullet::animate (entities.rs:268-273)
Bullet_animate(b, offset_ts) ==
    LET pos == b.inner.position
        y   == pos.y
        RATE == [num |-> BULLET_RATE_NUM, den |-> BULLET_RATE_DEN]
    IN  [b EXCEPT !.inner.position = set_y(pos, y - TimesRate(offset_ts, RATE))]

\* Vec::swap_remove (entities.rs:118): the last element takes the place of
\* the removed one
swap_remove(v, i) ==
    LET last == Len(v)
    IN  IF i = last
        THEN SubSeq(v, 1, last - 1)
        ELSE SubSeq([v EXCEPT ![i] = v[last]], 1, last - 1)

\* a bullet loop that moves a bullet first and removes it in the same call
\* when the move took it above the top
RECURSIVE BulletLoopEager(_, _, _)
BulletLoopEager(bullets, i, offset_ts) ==
    IF i <= Len(bullets)
    THEN LET moved == [bullets EXCEPT ![i] = Bullet_animate(@, offset_ts)]
         IN  IF moved[i].inner.position.y < -BULLET_HEIGHT
             THEN BulletLoopEager(swap_remove(moved, i), i, offset_ts)
             ELSE BulletLoopEager(moved, i + 1, offset_ts)
    ELSE bullets

\* a bullet loop that steps to the next index after a removal too
RECURSIVE BulletLoopSkip(_, _, _)
BulletLoopSkip(bullets, i, offset_ts) ==
    IF i <= Len(bullets)
    THEN IF bullets[i].inner.position.y < -BULLET_HEIGHT
         THEN BulletLoopSkip(swap_remove(bullets, i), i + 1, offset_ts)
         ELSE BulletLoopSkip([bullets EXCEPT ![i] = Bullet_animate(@, offset_ts)],
                             i + 1, offset_ts)
    ELSE bullets

\* the bullet loop of Ship::animate (entities.rs:113-123), from index i
\* (1-based here)
RECURSIVE BulletLoop(_, _, _)
BulletLoop(bullets, i, offset_ts) ==
    IF i <= Len(bullets)
    THEN IF bullets[i].inner.position.y < -BULLET_HEIGHT
         THEN BulletLoop(swap_remove(bullets, i), i, offset_ts)
         ELSE BulletLoop([bullets EXCEPT ![i] = Bullet_animate(@, offset_ts)],
                         i + 1, offset_ts)
    ELSE bullets

\* a Ship::animate whose Left and Right arms are exchanged
Ship_animateSwapped(s, offset_ts) ==
    LET offset == TimesRate(offset_ts, s.rate)
        position ==
            CASE s.direction = "Left"    -> XY_offset(s.inner.position, offset, 0)
              [] s.direction = "Right"   -> XY_offset(s.inner.position, -offset, 0)
              [] s.direction = "Stopped" -> s.inner.position
    IN  [s EXCEPT !.inner.position = position,
                  !.bullets = BulletLoop(s.bullets, 1, offset_ts)]

\* a Ship::animate whose Stopped arm moves like Right
Ship_animateDrift(s, offset_ts) ==
    LET offset == TimesRate(offset_ts, s.rate)
        position ==
            CASE s.direction = "Left"    -> XY_offset(s.inner.position, -offset, 0)
              [] s.direction = "Right"   -> XY_offset(s.inner.position, offset, 0)
              [] s.direction = "Stopped" -> XY_offset(s.inner.position, offset, 0)
    IN  [s EXCEPT !.inner.position = position,
                  !.bullets = BulletLoop(s.bullets, 1, offset_ts)]

\* Ship::animate (entities.rs:104-124); drawing changes no state
Ship_animate(s, offset_ts) ==
    LET offset == TimesRate(offset_ts, s.rate)
        position ==
            CASE s.direction = "Left"    -> XY_offset(s.inner.position, -offset, 0)
              [] s.direction = "Right"   -> XY_offset(s.inner.position, offset, 0)
              [] s.direction = "Stopped" -> s.inner.position
    IN  [s EXCEPT !.inner.position = position,
                  !.bullets = BulletLoop(s.bullets, 1, offset_ts)]

\* Ship::shoot (entities.rs:126-133)
Ship_shoot(s) ==
    LET position == Position_new(s.inner.position.x + SHOOT_DX,
                                 s.inner.position.y + SHOOT_DY)
        bullet == Bullet_new(position)
    IN  [s EXCEPT !.bullets = Append(@, bullet)]

\* Bounds of the ship runs
\* the playfield is 1..MaxShipWidths ship widths wide
MaxShipWidths == 4
\* shoot() is called while fewer than MaxBullets bullets are owned
MaxBullets == 1

Directions == {"Left", "Stopped", "Right"}

\* the rate start() passes to Ship::new (lib.rs:59): 0.5
SHIP_RATE_NUM == 1
SHIP_RATE_DEN == 2

\* shipCall observes the calls: the last operation and, for animate, its delta
InitShip ==
    /\ \E left_bound \in {0, MARGIN_X}, widths \in 1..MaxShipWidths :
            LET right_bound == left_bound + widths * SHIP_WIDTH
                y_position == SHIP_HEIGHT
                rate == [num |-> SHIP_RATE_NUM, den |-> SHIP_RATE_DEN]
            IN  /\ shipArgs = [rate |-> rate, y_position |-> y_position,
                               left_bound |-> left_bound,
                               right_bound |-> right_bound]
                /\ ship = Ship_new(rate, y_position, left_bound, right_bound)
    /\ shipCall = [op |-> "new", delta |-> 0]
    /\ OffsetIdle /\ FleetIdle /\ EntityIdle /\ GameIdle

\* an assignment to ship.direction (lib.rs:69, 72)
ShipSetDirection(d) ==
    /\ ship' = [ship EXCEPT !.direction = d]
    /\ shipCall' = [op |-> "direction", delta |-> 0]
    /\ UNCHANGED <<shipArgs, offsetVars, fleetVars, entityVars, gameVars>>

\* a call ship.animate(context, delta) (lib.rs:87).  A negative delta moves
\* bullets down without limit: it is taken while they stay above the ship's
\* baseline
ShipAnimate(delta) ==
    /\ ship' = Ship_animate(ship, delta)
    /\ \A i \in DOMAIN ship'.bullets :
            ship'.bullets[i].inner.position.y <= shipArgs.y_position + SHIP_HEIGHT
    /\ shipCall' = [op |-> "animate", delta |-> delta]
    /\ UNCHANGED <<shipArgs, offsetVars, fleetVars, entityVars, gameVars>>

\* a call ship.shoot()
ShipShoot ==
    /\ Len(ship.bullets) < MaxBullets
    /\ ship' = Ship_shoot(ship)
    /\ shipCall' = [op |-> "shoot", delta |-> 0]
    /\ UNCHANGED <<shipArgs, offsetVars, fleetVars, entityVars, gameVars>>

NextShip ==
    \/ \E d \in Directions : ShipSetDirection(d)
    \/ \E delta \in TimeDeltas : ShipAnimate(delta)
    \/ ShipShoot

SpecShip == InitShip /\ [][NextShip]_vars

(***************************************************************************)
(* Claims about Ship.                                                      *)
(***************************************************************************)
ShipX == ship.inner.position.x

ShipY == ship.inner.position.y

\* the bounds Ship::new was given leave room for the sprite
ShipFits == shipArgs.right_bound - shipArgs.left_bound >= SHIP_WIDTH

\* C8 (the ship stays in the playfield): for a playfield at least one ship
\* width wide, in every state from the one Ship::new returns,
\* left_bound <= x <= right_bound - SHIP_WIDTH.
C8_ShipInPlayfield ==
    ShipFits =>
        /\ shipArgs.left_bound <= ShipX
        /\ ShipX <= shipArgs.right_bound - SHIP_WIDTH

\* C9 (horizontal step): animate(delta) with delta >= 0, on a ship whose x is
\* inside its limit, sets x to max(left_bound, x - delta*rate) when the
\* direction is Left and to min(right_bound - SHIP_WIDTH, x + delta*rate) when
\* it is Right.
C9_Step ==
    LET lo   == shipArgs.left_bound
        hi   == shipArgs.right_bound - SHIP_WIDTH
        step == (shipCall'.delta * shipArgs.rate.num) \div shipArgs.rate.den
        newX == ship'.inner.position.x
    IN  (/\ shipCall'.op = "animate" /\ shipCall'.delta >= 0
         /\ lo <= ShipX /\ ShipX <= hi)
        => /\ ship.direction = "Left" =>
                newX = IF ShipX - step < lo THEN lo ELSE ShipX - step
           /\ ship.direction = "Right" =>
                newX = IF ShipX + step > hi THEN hi ELSE ShipX + step

\* C9: every animate step moves the ship as C9_Step states it.
C9_ShipStep == [][C9_Step]_vars

\* C9's case: with left bound 30 and rate 0.5 a ship moving Left has been
\* stopped at x = 30 by an animate call with a positive delta
C9_Witness ==
    /\ shipCall.op = "animate" /\ shipCall.delta > 0
    /\ ship.direction = "Left"
    /\ shipArgs.left_bound = MARGIN_X
    /\ shipArgs.right_bound - shipArgs.left_bound > SHIP_WIDTH
    /\ ShipX = MARGIN_X

\* C10 (a stopped ship does not move): animate(delta) with direction Stopped
\* leaves the ship's position (x, y and both strategies), its direction and
\* its rate as they were, for every delta.
C10_Step ==
    (shipCall'.op = "animate" /\ ship.direction = "Stopped")
        => /\ ship'.inner = ship.inner
           /\ ship'.direction = ship.direction
           /\ ship'.rate = ship.rate

\* C10: every animate step of a stopped ship leaves it as C10_Step states it.
C10_StoppedShipStays == [][C10_Step]_vars

\* C10's case: a ship that had moved and was then stopped has been animated
\* with a delta other than 0
C10_Witness ==
    /\ shipCall.op = "animate" /\ shipCall.delta # 0
    /\ ship.direction = "Stopped"
    /\ ShipX # Ship_new(shipArgs.rate, shipArgs.y_position, shipArgs.left_bound,
                        shipArgs.right_bound).inner.position.x

\* C20 (animate never changes the ship's y): after any sequence of direction
\* changes and animate calls, the ship's y is the y it had when Ship::new
\* returned.
C20_ShipYFixed ==
    ShipY = Ship_new(shipArgs.rate, shipArgs.y_position, shipArgs.left_bound,
                     shipArgs.right_bound).inner.position.y


(***************************************************************************)
(* The bullets of a Ship (entities.rs:113-133, 252-274).                   *)
(*                                                                         *)
(* The ship sits in the narrowest playfield, so that the states differ in  *)
(* the bullets and not in where the ship is.  It shoots from y = 0, and    *)
(* from y = 48 once a Left or Right animate call has moved it, so bullets  *)
(* start at y = 10 or y = 58 and rise 50 pixels per tick.                  *)
(***************************************************************************)
\* shoot() is called while fewer than MaxSweep bullets are owned
MaxSweep == 4
\* the time deltas are 0..MaxSweepTicks ticks
MaxSweepTicks == 1

SweepDeltas == {k * TickMs : k \in 0..MaxSweepTicks}

Expired(b) == b.inner.position.y < -BULLET_HEIGHT

\* shipCall observes the calls: the last operation, the delta of an animate
\* call, how many bullets it removed, and whether its first removal moved an
\* expired bullet from the end of the collection into the freed index
InitBullets ==
    /\ LET rate == [num |-> SHIP_RATE_NUM, den |-> SHIP_RATE_DEN]
           left_bound == MARGIN_X
           right_bound == MARGIN_X + SHIP_WIDTH
       IN  /\ shipArgs = [rate |-> rate, y_position |-> SHIP_HEIGHT,
                          left_bound |-> left_bound,
                          right_bound |-> right_bound]
           /\ ship = Ship_new(rate, SHIP_HEIGHT, left_bound, right_bound)
    /\ shipCall = [op |-> "new", delta |-> 0]
    /\ OffsetIdle /\ FleetIdle /\ EntityIdle /\ GameIdle

\* a call ship.animate(context, delta) (lib.rs:87)
BulletsAnimate(delta) ==
    /\ ship' = Ship_animate(ship, delta)
    /\ shipCall' =
            [op      |-> "animate",
             delta   |-> delta,
             removed |-> Len(ship.bullets) - Len(ship'.bullets),
             swapped |-> /\ ship.bullets # <<>>
                         /\ Expired(ship.bullets[Len(ship.bullets)])
                         /\ \E i \in 1..(Len(ship.bullets) - 1) :
                                Expired(ship.bullets[i])]
    /\ UNCHANGED <<shipArgs, offsetVars, fleetVars, entityVars, gameVars>>

\* a call ship.shoot()
BulletsShoot ==
    /\ Len(ship.bullets) < MaxSweep
    /\ ship' = Ship_shoot(ship)
    /\ shipCall' = [op |-> "shoot", delta |-> 0]
    /\ UNCHANGED <<shipArgs, offsetVars, fleetVars, entityVars, gameVars>>

NextBullets ==
    \/ \E d \in Directions : ShipSetDirection(d)
    \/ \E delta \in SweepDeltas : BulletsAnimate(delta)
    \/ BulletsShoot

SpecBullets == InitBullets /\ [][NextBullets]_vars

(***************************************************************************)
(* Claims about the bullets.                                               *)
(***************************************************************************)
BulletY(b) == b.inner.position.y

\* how far a bullet rises in the animate call this step makes
BulletRise == (shipCall'.delta * BULLET_RATE_NUM) \div BULLET_RATE_DEN

\* the number of times x occurs in the sequence s
Occurrences(s, x) == Cardinality({i \in DOMAIN s : s[i] = x})

\* C11 (when a bullet expires): an animate call removes exactly the bullets
\* that start the call with y < -BULLET_HEIGHT.  As many bullets remain as
\* started the call with y >= -BULLET_HEIGHT, and every bullet that remains
\* started the call with y >= -BULLET_HEIGHT, also when the call has taken
\* its y below -BULLET_HEIGHT.
C11_Step ==
    shipCall'.op = "animate" =>
        /\ Len(ship'.bullets) =
                Cardinality({i \in DOMAIN ship.bullets : ~Expired(ship.bullets[i])})
        /\ \A j \in DOMAIN ship'.bullets :
                /\ BulletY(ship'.bullets[j]) + BulletRise >= -BULLET_HEIGHT
                /\ \E i \in DOMAIN ship.bullets :
                        BulletY(ship.bullets[i]) = BulletY(ship'.bullets[j]) + BulletRise

\* C11: every animate step removes bullets as C11_Step states it.
C11_BulletExpiry == [][C11_Step]_vars

\* C11's case: one animate call has removed a bullet that started it above
\* the top and has kept a bullet that it took above the top
C11_Witness ==
    /\ shipCall.op = "animate" /\ shipCall.delta > 0
    /\ shipCall.removed >= 1
    /\ \E j \in DOMAIN ship.bullets : Expired(ship.bullets[j])

\* C19 (the sweep is complete): in one animate call, for any number and
\* order of bullets, the bullets that remain are the bullets that started the
\* call with y >= -BULLET_HEIGHT, each risen once by delta * RATE and
\* otherwise as it was; no bullet that started with y < -BULLET_HEIGHT
\* remains, the one swap_remove moved into the current index included.
C19_Step ==
    shipCall'.op = "animate" =>
        LET before == ship.bullets
            after  == ship'.bullets
            Risen(b) == [b EXCEPT !.inner.position.y = @ - BulletRise]
            Live == {i \in DOMAIN before : ~Expired(before[i])}
        IN  /\ \A j \in DOMAIN after :
                    \E i \in Live : after[j] = Risen(before[i])
            /\ \A i \in Live :
                    Occurrences(after, Risen(before[i])) =
                        Cardinality({k \in Live : before[k] = before[i]})

\* C19: every animate step sweeps the bullets as C19_Step states it.
C19_SweepComplete == [][C19_Step]_vars

\* C19's case: of three bullets an animate call has removed two, the second
\* of them after swap_remove had moved it into the index of the first, and
\* has kept the third
C19_Witness ==
    /\ shipCall.op = "animate" /\ shipCall.delta > 0
    /\ shipCall.removed = 2 /\ shipCall.swapped
    /\ Len(ship.bullets) = 1

(***************************************************************************)
(* Bullets under a driver that keeps animating                             *)
(* (src/src/entities.rs:113-133, 268-273)                                  *)
(*                                                                         *)
(* The same ship in the narrowest playfield.  A Bullet has no identity in  *)
(* the program; to follow one bullet from shoot() to its removal, the      *)
(* shoot step of this specification adds an observer field `tag` to the    *)
(* bullet Ship::shoot has pushed: the least tag no owned bullet carries.   *)
(* Bullet::animate and swap_remove carry the field along with the bullet.  *)
(* FairSpecMagazine adds the driver the claim assumes: animate keeps being *)
(* called with a delta > 0.                                                *)
(***************************************************************************)
\* shoot() is called while fewer than MaxMagazine bullets are owned
MaxMagazine == 2
\* the time deltas are 0..MaxRunTicks ticks
MaxRunTicks == 1

RunDeltas == {k * TickMs : k \in 0..MaxRunTicks}

Tags == 1..MaxMagazine

HasTag(t) == \E i \in DOMAIN ship.bullets : ship.bullets[i].tag = t

FreeTag == CHOOSE t \in Tags : ~HasTag(t) /\ \A u \in 1..(t - 1) : HasTag(u)

\* a call ship.animate(context, delta) (lib.rs:87)
MagazineAnimate(delta) ==
    /\ ship' = Ship_animate(ship, delta)
    /\ shipCall' = [op      |-> "animate",
                    delta   |-> delta,
                    removed |-> Len(ship.bullets) - Len(ship'.bullets)]
    /\ UNCHANGED <<shipArgs, offsetVars, fleetVars, entityVars, gameVars>>

\* a call ship.shoot(); the pushed bullet is tagged
MagazineShoot ==
    /\ Len(ship.bullets) < MaxMagazine
    /\ LET shot == Ship_shoot(ship)
           n    == Len(shot.bullets)
       IN  ship' = [shot EXCEPT !.bullets[n] =
                        [inner |-> @.inner, tag |-> FreeTag]]
    /\ shipCall' = [op |-> "shoot", delta |-> 0]
    /\ UNCHANGED <<shipArgs, offsetVars, fleetVars, entityVars, gameVars>>

\* the animate calls with delta > 0
MagazineAdvance == \E delta \in RunDeltas \ {0} : MagazineAnimate(delta)

NextMagazine ==
    \/ \E d \in Directions : ShipSetDirection(d)
    \/ \E delta \in RunDeltas : MagazineAnimate(delta)
    \/ MagazineShoot

SpecMagazine == InitBullets /\ [][NextMagazine]_vars

\* animate keeps being called with delta > 0: the animation callback asks
\* for the next frame every time it runs (lib.rs:84-90, 96-101)
FairSpecMagazine == SpecMagazine /\ WF_vars(MagazineAdvance)

\* a shoot step adds exactly one bullet, at (ship.x + 11, ship.y + 10), and
\* leaves the ship and the other bullets as they were
C22_ShootStep ==
    shipCall'.op = "shoot" =>
        LET n == Len(ship.bullets)
        IN  /\ Len(ship'.bullets) = n + 1
            /\ SubSeq(ship'.bullets, 1, n) = ship.bullets
            /\ ship'.bullets[n + 1].inner.position.x = ShipX + 11
            /\ ship'.bullets[n + 1].inner.position.y = ShipY + 10
            /\ [ship' EXCEPT !.bullets = ship.bullets] = ship

\* an animate step with delta > 0 takes every bullet that starts it with
\* y >= -BULLET_HEIGHT up by RATE * delta and leaves its x as it was
C22_AnimateStep ==
    (shipCall'.op = "animate" /\ shipCall'.delta > 0) =>
        \A i \in DOMAIN ship.bullets :
            ~Expired(ship.bullets[i]) =>
                \E j \in DOMAIN ship'.bullets :
                    /\ ship'.bullets[j].tag = ship.bullets[i].tag
                    /\ BulletY(ship'.bullets[j]) =
                            BulletY(ship.bullets[i]) - BulletRise
                    /\ BulletY(ship'.bullets[j]) < BulletY(ship.bullets[i])
                    /\ ship'.bullets[j].inner.position.x =
                            ship.bullets[i].inner.position.x

\* C22 (bullets do not accumulate): shoot() adds exactly one bullet at
\* (ship.x + 11, ship.y + 10) and leaves the ship and the other bullets
\* unchanged; an animate call with delta > 0 lowers the y of every live
\* bullet by RATE * delta and leaves its x unchanged; when animate keeps
\* being called with delta > 0, every bullet is eventually removed, and if
\* from some time on shoot() is not called any more, the collection is
\* eventually empty for ever.
C22_BulletsDoNotAccumulate ==
    /\ [][C22_ShootStep /\ C22_AnimateStep]_vars
    /\ \A t \in Tags : HasTag(t) ~> ~HasTag(t)
    /\ <>[](shipCall.op # "shoot") => <>[](ship.bullets = <<>>)

\* C22's case: a bullet that was shot has risen in animate calls with
\* delta > 0 and the last of them has removed it, leaving no bullet
C22_Witness ==
    /\ shipCall.op = "animate" /\ shipCall.delta > 0
    /\ shipCall.removed = 1
    /\ ship.bullets = <<>>

(***************************************************************************)
(* Entity::new with a pixel buffer (src/src/entities.rs:16-24)             *)
(*                                                                         *)
(* Entity_new above leaves the pixel data out because no motion depends on *)
(* it.  Entity_new_image is the same constructor with the buffer kept: it  *)
(* copies `image` whatever its length and wraps the Entity in Ok.  A       *)
(* Result is [ok, value]; the buffer is a sequence of bytes.               *)
(***************************************************************************)
MaxDim == 2

Entity_new_image(width, height, image) ==
    [ok    |-> TRUE,
     value |-> [size     |-> Size_new(width, height),
                position |-> Position_new(0, 0),
                data     |-> image]]

Dims == 0..MaxDim

Images == {[i \in 1..n |-> 255] : n \in 0..(MaxDim * MaxDim * 4 + 1)}

InitEntity ==
    /\ entity = [op |-> "none"]
    /\ OffsetIdle /\ FleetIdle /\ ShipIdle /\ GameIdle

EntityNew(width, height, image) ==
    /\ entity' = [op     |-> "new",
                  width  |-> width,
                  height |-> height,
                  len    |-> Len(image),
                  result |-> Entity_new_image(width, height, image)]
    /\ UNCHANGED <<offsetVars, fleetVars, shipVars, gameVars>>

NextEntity == \E width \in Dims, height \in Dims, image \in Images : EntityNew(width, height, image)

SpecEntity == InitEntity /\ [][NextEntity]_vars

\* C12: Entity::new returns an error and no Entity whenever the buffer
\* length differs from width * height * 4, and an Entity only when the
\* length is equal.
C12_EntityRejectsWrongSize ==
    entity.op = "new" =>
        (entity.result.ok <=> entity.len = entity.width * entity.height * 4)


(***************************************************************************)
(* start(): the key listener, the key channel and the animation driver     *)
(* (src/src/lib.rs:14-101).                                                *)
(*                                                                         *)
(* The listener and the driver are callbacks of one event loop, so each    *)
(* runs from start to end before the other can run: one action each.  The  *)
(* sender and the receiver are owned by closures that are never dropped    *)
(* (lib.rs:32, 91), so the channel never disconnects; the arms for that    *)
(* outcome are kept in the handlers.  A key event is [type, key].  The     *)
(* driver's clock is read from last_ts: a frame's input is                 *)
(* ts_offset = ts - last_ts (lib.rs:84-85).  Ship and Fleet are the ones   *)
(* of entities.rs.                                                         *)
(***************************************************************************)
\* MARGIN_Y (lib.rs:12)
MARGIN_Y == 30

\* the bound of the channel: mpsc::sync_channel(Capacity), 100 in lib.rs:18
Capacity == 2
\* a frame comes 0 or MaxFrameTicks ticks after the one before
MaxFrameTicks == 5

FrameDeltas == {0, MaxFrameTicks * TickMs}

\* the listener is registered for these two event types (lib.rs:28-29)
KeyTypes == {"keydown", "keyup"}

\* the four keys the driver recognizes and one it does not
Keys == {"a", "ArrowLeft", "d", "ArrowRight", " "}

KeyEvents == [type : KeyTypes, key : Keys]

\* canvas.width(), canvas.height() (lib.rs:40-41)
CanvasSizes == {[width |-> 312, height |-> 300]}

\* a try_send that buffers the event also when the buffer is full
try_sendGrow(q, evt) == [ok |-> TRUE, queue |-> Append(q, evt)]

\* a try_send that reports success and loses the event when the buffer is full
try_sendLossy(q, evt) ==
    [ok |-> TRUE, queue |-> IF Len(q) < Capacity THEN Append(q, evt) ELSE q]

\* SyncSender::try_send (lib.rs:21) on a channel of bound Capacity:
\* Err(Full) and no change when Capacity events are buffered
try_send(q, evt) ==
    IF Len(q) < Capacity
    THEN [ok |-> TRUE, queue |-> Append(q, evt)]
    ELSE [ok |-> FALSE, queue |-> q]

\* a try_recv that takes the newest event
try_recvNewest(q) ==
    IF q = <<>>
    THEN [tag |-> "Empty", queue |-> q]
    ELSE [tag |-> "Ok", value |-> q[Len(q)], queue |-> SubSeq(q, 1, Len(q) - 1)]

\* Receiver::try_recv (lib.rs:63): the oldest buffered event, or Err(Empty)
try_recv(q) ==
    IF q = <<>>
    THEN [tag |-> "Empty", queue |-> q]
    ELSE [tag |-> "Ok", value |-> Head(q), queue |-> Tail(q)]

\* a key match whose key-up arms leave the direction as it is
KeyDirectionNoStop(direction, evt) ==
    CASE evt.key \in {"a", "ArrowLeft"} ->
            IF evt.type = "keydown" THEN "Left" ELSE direction
      [] evt.key \in {"d", "ArrowRight"} ->
            IF evt.type = "keydown" THEN "Right" ELSE direction
      [] OTHER -> direction

\* the match on evt.key() (lib.rs:65-75): the direction the ship has after it
KeyDirection(direction, evt) ==
    CASE evt.key \in {"a", "ArrowLeft"} ->
            IF evt.type = "keydown" THEN "Left" ELSE "Stopped"
      [] evt.key \in {"d", "ArrowRight"} ->
            IF evt.type = "keydown" THEN "Right" ELSE "Stopped"
      [] OTHER -> direction

\* key_event_closure (lib.rs:19-27): what it leaves in the channel and what
\* it writes to the console
key_event_closure(q, event) ==
    LET send_result == try_send(q, event)
    IN  [queue |-> send_result.queue,
         sent  |-> send_result.ok,
         log   |-> IF send_result.ok THEN <<>> ELSE <<"Failed to send key event">>]

\* the calls a frame makes after the match on try_recv (lib.rs:82-89)
FrameCalls(ts_offset) ==
    <<[call |-> "clear_rect", offset_ts |-> 0],
      [call |-> "Fleet::animate", offset_ts |-> ts_offset],
      [call |-> "Ship::animate", offset_ts |-> ts_offset],
      [call |-> "request_animation_frame", offset_ts |-> 0]>>

\* a frame that returns at once when the channel is empty
closure_innerStopOnEmpty(g, ts_offset) ==
    LET recv == try_recv(g.queue)
        direction == IF recv.tag = "Ok"
                     THEN KeyDirection(g.ship.direction, recv.value)
                     ELSE g.ship.direction
        turned == [g.ship EXCEPT !.direction = direction]
    IN  IF recv.tag = "Ok"
        THEN [queue   |-> recv.queue,
              recv    |-> recv.tag,
              fleet   |-> Fleet_animate(g.fleet, ts_offset),
              ship    |-> Ship_animate(turned, ts_offset),
              calls   |-> FrameCalls(ts_offset),
              pending |-> (g.pending - 1) + 1]
        ELSE [queue   |-> recv.queue,
              recv    |-> recv.tag,
              fleet   |-> g.fleet,
              ship    |-> g.ship,
              calls   |-> <<>>,
              pending |-> g.pending - 1]

\* closure_inner (lib.rs:62-90) run on g = [queue, ship, fleet, pending] with
\* ts_offset = ts - last_ts: one try_recv, the direction from its outcome,
\* then clear_rect, enemies.animate, ship.animate and one
\* request_animation_frame, whatever the outcome was
closure_inner(g, ts_offset) ==
    LET recv == try_recv(g.queue)
        direction == CASE recv.tag = "Ok" -> KeyDirection(g.ship.direction, recv.value)
                       [] recv.tag = "Empty" -> g.ship.direction
                       [] OTHER -> g.ship.direction
        turned == [g.ship EXCEPT !.direction = direction]
    IN  [queue   |-> recv.queue,
         recv    |-> recv.tag,
         fleet   |-> Fleet_animate(g.fleet, ts_offset),
         ship    |-> Ship_animate(turned, ts_offset),
         calls   |-> FrameCalls(ts_offset),
         pending |-> (g.pending - 1) + 1]

\* whether a key is one of the four movement keys
Recognized(evt) == evt.key \in {"a", "ArrowLeft", "d", "ArrowRight"}

\* the state start() leaves (lib.rs:18, 58-60, 93): an empty channel, the
\* fleet, the ship and one requested frame.  note observes the last callback
\* run; lastEdge observes the last movement-key event the listener was given,
\* the direction it stands for and whether the channel took it
InitGame ==
    /\ \E canvas \in CanvasSizes :
            LET rate == [num |-> SHIP_RATE_NUM, den |-> SHIP_RATE_DEN]
            IN  /\ fleetArgs = [rows |-> 4, columns |-> 6, spacing |-> MARGIN_Y,
                                left_bound |-> MARGIN_X,
                                right_bound |-> canvas.width - MARGIN_X]
                /\ fleet = Fleet_new(4, 6, MARGIN_Y, MARGIN_X, canvas.width - MARGIN_X)
                /\ shipArgs = [rate |-> rate, y_position |-> canvas.height - MARGIN_Y,
                               left_bound |-> MARGIN_X,
                               right_bound |-> canvas.width - MARGIN_X]
                /\ ship = Ship_new(rate, canvas.height - MARGIN_Y, MARGIN_X,
                                   canvas.width - MARGIN_X)
    /\ fleetCall = <<>> /\ shipCall = <<>>
    /\ queue = <<>>
    /\ pending = 1
    /\ note = [op |-> "start"]
    /\ lastEdge = [seen |-> FALSE, dir |-> "Stopped", sent |-> TRUE]
    /\ frames = 0
    /\ OffsetIdle /\ EntityIdle

\* the browser hands a key event to the listener: what the listener changes
KeyPushed(event) ==
    LET run == key_event_closure(queue, event)
    IN  /\ queue' = run.queue
        /\ note' = [op |-> "key", sent |-> run.sent, log |-> run.log]
        /\ UNCHANGED <<pending, frames, ship, fleet, shipArgs, fleetArgs,
                       shipCall, fleetCall, offsetVars, entityVars>>

KeyEvent(event) == KeyPushed(event) /\ UNCHANGED lastEdge

\* the browser runs a requested frame, ts_offset after the one before: what
\* the frame changes
FrameRun(ts_offset) ==
    /\ pending > 0
    /\ LET run == closure_inner([queue |-> queue, ship |-> ship, fleet |-> fleet,
                                 pending |-> pending], ts_offset)
       IN  /\ queue' = run.queue
           /\ ship' = run.ship
           /\ fleet' = run.fleet
           /\ pending' = run.pending
           /\ note' = [op |-> "frame", recv |-> run.recv, delta |-> ts_offset,
                       calls |-> run.calls]
    /\ UNCHANGED <<lastEdge, shipArgs, fleetArgs, shipCall, fleetCall,
                   offsetVars, entityVars>>

Frame(ts_offset) == FrameRun(ts_offset) /\ UNCHANGED frames

Listener == \E event \in KeyEvents : KeyEvent(event)

Driver == \E ts_offset \in FrameDeltas : Frame(ts_offset)

NextGame == Listener \/ Driver

SpecGame == InitGame /\ [][NextGame]_vars

(***************************************************************************)
(* Claims about the listener, the channel and the driver.                  *)
(***************************************************************************)
\* C13 (channel overflow): the channel never holds more than Capacity
\* events.  A listener run on a full channel ends without a change to the
\* buffered events or their order, reports the event as not sent and writes
\* a diagnostic; the driver's requested frame stays requested.  A listener
\* run on a channel that is not full appends one event.
C13_Step ==
    /\ Len(queue) <= Capacity /\ Len(queue') <= Capacity
    /\ note'.op = "key" =>
        /\ Len(queue) = Capacity =>
                /\ queue' = queue
                /\ ~note'.sent /\ note'.log # <<>>
                /\ pending' = pending /\ ship' = ship
        /\ Len(queue) < Capacity =>
                /\ Len(queue') = Len(queue) + 1
                /\ SubSeq(queue', 1, Len(queue)) = queue
                /\ note'.sent /\ note'.log = <<>>

\* C13: every step treats the channel as C13_Step states it.
C13_OverflowDrops == [][C13_Step]_vars

\* C13's case: with no frame run since start, the listener was given one
\* event more than the channel holds; the last one was dropped with a
\* diagnostic
C13_Witness ==
    /\ note.op = "key" /\ ~note.sent /\ note.log # <<>>
    /\ Len(queue) = Capacity
    /\ queue[1] # queue[2]
    /\ ship.inner.position.y = shipArgs.y_position - SHIP_HEIGHT
    /\ fleet.position.x_strategy.direction = 1

\* C15 (the direction state machine): the direction is Stopped when start()
\* returns.  A frame that pops a keydown of "a" or "ArrowLeft" leaves it
\* Left, one that pops a keydown of "d" or "ArrowRight" leaves it Right, one
\* that pops a keyup of any of the four leaves it Stopped; a frame that pops
\* another key or finds the channel empty, and a listener run, leave it as it
\* was.  The animate calls of the frame do not change it.
C15_Step ==
    /\ note.op = "start" => ship.direction = "Stopped"
    /\ note'.op = "key" => ship'.direction = ship.direction
    /\ note'.op = "frame" =>
        IF queue = <<>>
        THEN ship'.direction = ship.direction
        ELSE LET evt == Head(queue)
                 left == evt.key = "a" \/ evt.key = "ArrowLeft"
                 right == evt.key = "d" \/ evt.key = "ArrowRight"
             IN  /\ (evt.type = "keydown" /\ left) => ship'.direction = "Left"
                 /\ (evt.type = "keydown" /\ right) => ship'.direction = "Right"
                 /\ (evt.type = "keyup" /\ (left \/ right)) =>
                        ship'.direction = "Stopped"
                 /\ ~(left \/ right) => ship'.direction = ship.direction

\* C15: every step changes the direction as C15_Step states it.
C15_DirectionMachine == [][C15_Step]_vars

\* C15's case: a ship that had been moved off its starting x has been
\* stopped by a frame that popped an event
C15_Witness ==
    /\ note.op = "frame" /\ note.recv = "Ok"
    /\ ship.direction = "Stopped"
    /\ ShipX # Ship_new(shipArgs.rate, shipArgs.y_position, shipArgs.left_bound,
                        shipArgs.right_bound).inner.position.x

\* C16 (the frame loop goes on): a frame, whatever try_recv returned, clears
\* the surface, calls Fleet::animate and then Ship::animate with the one
\* ts_offset of the frame, which move the fleet and the ship by it, and
\* requests the next frame once.  One frame is requested in every state, so
\* every frame is followed by another; a listener run does not change that.
C16_Step ==
    /\ pending = 1 /\ pending' = 1
    /\ note'.op = "frame" =>
        LET d == note'.delta
        IN  /\ Len(note'.calls) = 4
            /\ note'.calls[1].call = "clear_rect"
            /\ note'.calls[2] = [call |-> "Fleet::animate", offset_ts |-> d]
            /\ note'.calls[3] = [call |-> "Ship::animate", offset_ts |-> d]
            /\ note'.calls[4].call = "request_animation_frame"
            /\ fleet' = Fleet_animate(fleet, d)
            /\ ship' = Ship_animate([ship EXCEPT !.direction = ship'.direction], d)

\* C16: every step keeps the frame loop going as C16_Step states it.
C16_FrameLoopGoesOn == [][C16_Step]_vars

\* C16's case: a frame that found the channel empty has moved the fleet and
\* has requested the next frame
C16_Witness ==
    /\ note.op = "frame" /\ note.recv = "Empty" /\ note.delta > 0
    /\ fleet.position.x # fleetArgs.left_bound
    /\ pending = 1

\* C18 (one event per frame, oldest first): a frame removes the oldest
\* buffered event and no other, or nothing when the channel is empty; a
\* listener run leaves the buffered events in place and appends at most one
\* after them.  The direction the frame has taken from the popped event is
\* the one its Ship::animate call moves the ship by.
C18_Step ==
    /\ note'.op = "frame" =>
        /\ queue = <<>> => (queue' = <<>> /\ note'.recv = "Empty")
        /\ queue # <<>> => (queue' = Tail(queue) /\ note'.recv = "Ok")
        /\ LET lo == shipArgs.left_bound
               hi == shipArgs.right_bound - SHIP_WIDTH
               x  == ShipX
               newX == ship'.inner.position.x
           IN  note'.delta > 0 =>
                /\ (ship'.direction = "Left" /\ lo < x) => newX < x
                /\ (ship'.direction = "Right" /\ x < hi) => newX > x
                /\ ship'.direction = "Stopped" => newX = x
    /\ note'.op = "key" =>
        \/ queue' = queue
        \/ /\ Len(queue') = Len(queue) + 1
           /\ SubSeq(queue', 1, Len(queue)) = queue

\* C18: every step consumes events as C18_Step states it.
C18_OnePerFrameInOrder == [][C18_Step]_vars

\* C18's case: of two buffered events a frame has popped the older, a
\* keydown that turned the ship left, has moved the ship to the left bound
\* and has left the newer, a different event, in the channel
C18_Witness ==
    /\ note.op = "frame" /\ note.recv = "Ok" /\ note.delta > 0
    /\ Len(queue) = 1 /\ queue[1].key = "d"
    /\ ship.direction = "Left"
    /\ ShipX = shipArgs.left_bound

(***************************************************************************)
(* The same program with the listener's last movement-key event and the    *)
(* parity of the number of frames observed.  The keys are one that turns   *)
(* left, one that turns right and one that is not recognized.              *)
(***************************************************************************)
EdgeKeys == {"a", "d", " "}

EdgeEvents == [type : KeyTypes, key : EdgeKeys]

ObservedKeyEvent(event) ==
    /\ KeyPushed(event)
    /\ lastEdge' = IF Recognized(event)
                   THEN [seen |-> TRUE,
                         dir  |-> IF event.type = "keyup" THEN "Stopped"
                                  ELSE IF event.key = "a" THEN "Left" ELSE "Right",
                         sent |-> note'.sent]
                   ELSE lastEdge

ObservedListener == \E event \in EdgeEvents : ObservedKeyEvent(event)

ObservedFrame(ts_offset) == FrameRun(ts_offset) /\ frames' = 1 - frames

ObservedDriver == \E ts_offset \in FrameDeltas : ObservedFrame(ts_offset)

NextLastKey == ObservedListener \/ ObservedDriver

SpecLastKey == InitGame /\ [][NextLastKey]_vars

\* a requested frame runs.  Of the steps of NextLastKey the frames, and all
\* of them, change the parity, and a frame can run exactly when one is
\* requested
FrameDue == pending > 0 /\ frames' = 1 - frames

\* every frame requests the next one (lib.rs:89, 93) and the browser runs a
\* requested frame: weak fairness of the driver
FairSpecLastKey == SpecLastKey /\ WF_frames(FrameDue)

\* C14 (the last key state wins), as claimed: when the last movement-key
\* event the listener was given stays the same for good and frames keep
\* running, the direction becomes, and stays, the one that event stands for.
C14_LastEdgeWins ==
    /\ <>[](lastEdge.seen /\ lastEdge.dir = "Left") => <>[](ship.direction = "Left")
    /\ <>[](lastEdge.seen /\ lastEdge.dir = "Right") => <>[](ship.direction = "Right")
    /\ <>[](lastEdge.seen /\ lastEdge.dir = "Stopped") => <>[](ship.direction = "Stopped")

\* C14, amended: the same when the channel took that last movement-key
\* event, that is when it was not dropped by a full channel.
C14_LastSentEdgeWins ==
    /\ <>[](lastEdge.seen /\ lastEdge.sent /\ lastEdge.dir = "Left")
            => <>[](ship.direction = "Left")
    /\ <>[](lastEdge.seen /\ lastEdge.sent /\ lastEdge.dir = "Right")
            => <>[](ship.direction = "Right")
    /\ <>[](lastEdge.seen /\ lastEdge.sent /\ lastEdge.dir = "Stopped")
            => <>[](ship.direction = "Stopped")

\* C14's case: the frames have emptied the channel and the ship moves right,
\* as the last movement-key event that the channel took said
C14_Witness ==
    /\ lastEdge.seen /\ lastEdge.sent /\ lastEdge.dir = "Right"
    /\ note.op = "frame" /\ note.recv = "Ok"
    /\ queue = <<>>
    /\ ship.direction = "Right"

====
